---- MODULE Spec2Model ----
(***************************************************************************)
(* Model of ytdlp_scripts/main.py: one run of download_missing_videos.     *)
(* Text (file names, paths, identifiers, URLs) is a sequence of one-       *)
(* character strings, a Path is the sequence of its parts, and the two     *)
(* external collaborators (yt_dlp.YoutubeDL.extract_info / .download) are  *)
(* the value the first returns and the record of the calls made to both.   *)
(***************************************************************************)
EXTENDS Integers, Sequences, FiniteSets, TLC

\* ---------------------------------------------------------------- bounds
MaxFiles == 2       \* entries of the scanned directory
MaxEntries == 2     \* entries of the channel listing

\* ---------------------------------------------------------------- text
RECURSIVE Rep(_, _)
Rep(c, n) == IF n = 0 THEN <<>> ELSE <<c>> \o Rep(c, n - 1)

Range(f) == {f[i] : i \in DOMAIN f}

\* width of the captured group of VIDEO_ID_PATTERN, r"\[(.{11})\]"
IdLen == 11

IdA == Rep("a", IdLen)
IdB == Rep("b", IdLen)
TokA == <<"[">> \o IdA \o <<"]">>
TokB == <<"[">> \o IdB \o <<"]">>

BASE_URL ==
    << "h","t","t","p","s",":","/","/","w","w","w",".","y","o","u","t","u","b","e",
       ".","c","o","m","/","w","a","t","c","h","?","v","=" >>

\* VIDEO_ID_PATTERN.search(s): the leftmost position where "[" is followed by
\* IdLen characters other than a newline and then "]"; <<>> is "no match",
\* <<g>> a match whose group(1) is g.
VIDEO_ID_PATTERN_search(s) ==
    LET starts == {i \in 1..(Len(s) - IdLen - 1) :
                      /\ s[i] = "["
                      /\ \A j \in 1..IdLen : s[i + j] # "\n"
                      /\ s[i + IdLen + 1] = "]"}
    IN  IF starts = {} THEN <<>>
        ELSE LET m == CHOOSE i \in starts : \A k \in starts : i <= k
             IN  <<SubSeq(s, m + 1, m + IdLen)>>

\* str(path): the parts joined by "/"
RECURSIVE PathStr(_)
PathStr(p) ==
    IF p = <<>> THEN <<>>
    ELSE IF Len(p) = 1 THEN p[1]
    ELSE p[1] \o <<"/">> \o PathStr(Tail(p))

\* ---------------------------------------------------------------- inputs
Ext == <<".", "m", "p", "4">>

\* file names: one token, two tokens, a short bracketed run before a token, a
\* bracket right before a token, no bracket, runs of 10 and of 12 characters,
\* and a run of 11 characters with a newline in it
NameA == <<"x", " ">> \o TokA \o Ext
NameB == <<"y", " ">> \o TokB \o Ext
NameAB == <<"x", " ">> \o TokA \o <<" ">> \o TokB \o Ext
NameShortB == <<"[", "a", "b", "]", " ">> \o TokB \o Ext
NameNested == <<"[">> \o TokA
NameNone == <<"x">> \o Ext
Name10 == <<"[">> \o Rep("a", IdLen - 1) \o <<"]">>
Name12 == <<"[">> \o Rep("a", IdLen + 1) \o <<"]">>
NameNl == <<"[">> \o Rep("a", 5) \o <<"\n">> \o Rep("a", IdLen - 6) \o <<"]">>

Names == {NameA, NameB, NameAB, NameShortB, NameNested, NameNone, Name10, Name12, NameNl}

Listings == UNION {{Range(f) : f \in [1..n -> Names]} : n \in 0..MaxFiles}

DirPlain == << <<"v">> >>
DirTok == << <<"v">>, TokA >>
OutDir == << <<"w">> >>
LocalPaths == {DirPlain, DirTok}

\* a listed entry: a mapping with an id, a mapping without one, or no mapping
Entries == {[isdict |-> TRUE, id |-> <<IdA>>], [isdict |-> TRUE, id |-> <<IdB>>],
            [isdict |-> TRUE, id |-> <<>>], [isdict |-> FALSE, id |-> <<>>]}

EntryLists == UNION {[1..n -> Entries] : n \in 0..MaxEntries}

\* what extract_info gives back: it raises, returns something that is no dict,
\* or a dict whose "entries" is absent, not a list, or a list
Infos == {[kind |-> "raises", ekind |-> "absent", entries |-> <<>>],
          [kind |-> "notdict", ekind |-> "absent", entries |-> <<>>],
          [kind |-> "dict", ekind |-> "absent", entries |-> <<>>],
          [kind |-> "dict", ekind |-> "notlist", entries |-> <<>>]}
         \cup {[kind |-> "dict", ekind |-> "list", entries |-> es] : es \in EntryLists}

channelname == <<"@", "x">>

VARIABLES pc, info, isdir, files, localpath, outpathArg, dry_run,
          outpath, channel_ids, local_ids, missing, urls, ydl_opts, log, error

vars == <<pc, info, isdir, files, localpath, outpathArg, dry_run,
          outpath, channel_ids, local_ids, missing, urls, ydl_opts, log, error>>

inputs == <<info, isdir, files, localpath, outpathArg, dry_run>>

\* ---------------------------------------------------------------- filesystem
\* the local directory is the one drawn in Init; OutDir is another directory
\* that holds one video
is_dir(p) == IF p = localpath THEN isdir ELSE p = OutDir
glob(p) == IF p = localpath THEN {Append(p, n) : n \in files}
           ELSE IF p = OutDir THEN {Append(p, TokB)} ELSE {}

\* ---------------------------------------------------------------- functions
Ok(v) == [ok |-> TRUE, val |-> v, err |-> ""]
Raise(e) == [ok |-> FALSE, val |-> {}, err |-> e]

\* the loop of lines 34-38 over entries i..Len(es), ids collected so far in acc
RECURSIVE CollectIds(_, _, _)
CollectIds(es, i, acc) ==
    IF i > Len(es) THEN Ok(acc)
    ELSE IF ~es[i].isdict THEN Raise("MalformedEntry")
    ELSE IF es[i].id = <<>> THEN Raise("KeyError")
    ELSE CollectIds(es, i + 1, acc \cup {es[i].id[1]})

\* variant: an empty or absent listing is taken for a channel without videos
get_all_video_ids_from_channel_noempty(inf) ==
    IF inf.kind = "raises" THEN Raise("ExtractError")
    ELSE IF inf.kind # "dict" THEN Raise("InvalidResponse")
    ELSE CollectIds(inf.entries, 1, {})

get_all_video_ids_from_channel(inf) ==
    IF inf.kind = "raises" THEN Raise("ExtractError")
    ELSE IF inf.kind # "dict" THEN Raise("InvalidResponse")
    ELSE IF inf.ekind # "list" \/ inf.entries = <<>> THEN Raise("EmptyResult")
    ELSE CollectIds(inf.entries, 1, {})

get_all_video_ids_from_path(dirpath) ==
    IF ~is_dir(dirpath) THEN Raise("InvalidPath")
    ELSE Ok({m[1] : m \in {VIDEO_ID_PATTERN_search(PathStr(file)) : file \in glob(dirpath)}
                           \ {<<>>}})

\* variant: nothing is subtracted
difference_keepall(a, b) == a

difference(a, b) == a \ b

\* variant: the prefix is left out
VideoUrl_bare(video_id) == video_id

VideoUrl(video_id) == BASE_URL \o video_id

\* the orders in which a list comprehension can walk a set
ListsOf(S) == {f \in [1..Cardinality(S) -> S] : Range(f) = S}

\* ---------------------------------------------------------------- log
Ev(k, p, u, n) == [k |-> k, path |-> p, urls |-> u, n |-> n]
QueryUrl == << "h","t","t","p","s",":","/","/","w","w","w",".","y","o","u","t","u","b","e",
               ".","c","o","m","/" >> \o channelname \o <<"/","v","i","d","e","o","s">>

Init ==
    /\ pc = "start"
    /\ info \in Infos
    /\ localpath \in LocalPaths
    /\ isdir \in BOOLEAN
    /\ files \in Listings
    /\ (~isdir => files = {} /\ localpath = DirPlain)
    /\ outpathArg \in {<<>>, <<OutDir>>}
    /\ dry_run \in BOOLEAN
    /\ outpath = <<>>
    /\ channel_ids = <<>>
    /\ local_ids = <<>>
    /\ missing = <<>>
    /\ urls = <<>>
    /\ ydl_opts = <<>>
    /\ log = <<>>
    /\ error = ""

\* variant: the given output directory is ignored
ResolveOutpath_ignore ==
    /\ pc = "start"
    /\ outpath' = localpath
    /\ pc' = "remote"
    /\ UNCHANGED <<inputs, channel_ids, local_ids, missing, urls, ydl_opts, log, error>>

\* lines 93-94
ResolveOutpath ==
    /\ pc = "start"
    /\ outpath' = IF outpathArg = <<>> THEN localpath ELSE outpathArg[1]
    /\ pc' = "remote"
    /\ UNCHANGED <<inputs, channel_ids, local_ids, missing, urls, ydl_opts, log, error>>

\* variant: the local directory is validated before the channel is queried
CallRemote_localfirst ==
    /\ pc = "remote"
    /\ IF ~is_dir(localpath)
       THEN /\ log' = Append(log, Ev("is_dir", PathStr(localpath), <<>>, 0))
            /\ channel_ids' = channel_ids
            /\ pc' = "raised"
            /\ error' = "InvalidPath"
       ELSE LET r == get_all_video_ids_from_channel(info)
            IN  /\ log' = Append(log, Ev("query", QueryUrl, <<>>, 0))
                /\ IF r.ok
                   THEN /\ channel_ids' = <<r.val>>
                        /\ pc' = "local"
                        /\ error' = error
                   ELSE /\ channel_ids' = channel_ids
                        /\ pc' = "raised"
                        /\ error' = r.err
    /\ UNCHANGED <<inputs, outpath, local_ids, missing, urls, ydl_opts>>

\* line 69: the call of get_all_video_ids_from_channel
CallRemote ==
    /\ pc = "remote"
    /\ LET r == get_all_video_ids_from_channel(info)
       IN  /\ log' = Append(log, Ev("query", QueryUrl, <<>>, 0))
           /\ IF r.ok
              THEN /\ channel_ids' = <<r.val>>
                   /\ pc' = "local"
                   /\ error' = error
              ELSE /\ channel_ids' = channel_ids
                   /\ pc' = "raised"
                   /\ error' = r.err
    /\ UNCHANGED <<inputs, outpath, local_ids, missing, urls, ydl_opts>>

\* variant: a failure of the local lister is swallowed and no video counts as local
CallLocal_swallow ==
    /\ pc = "local"
    /\ LET r == get_all_video_ids_from_path(localpath)
       IN  /\ log' = Append(log, Ev("is_dir", PathStr(localpath), <<>>, 0))
           /\ local_ids' = <<r.val>>
           /\ pc' = "diff"
           /\ error' = error
    /\ UNCHANGED <<inputs, outpath, channel_ids, missing, urls, ydl_opts>>

\* line 70: the call of get_all_video_ids_from_path
CallLocal ==
    /\ pc = "local"
    /\ LET r == get_all_video_ids_from_path(localpath)
       IN  /\ log' = Append(log, Ev("is_dir", PathStr(localpath), <<>>, 0))
           /\ IF r.ok
              THEN /\ local_ids' = <<r.val>>
                   /\ pc' = "diff"
                   /\ error' = error
              ELSE /\ local_ids' = local_ids
                   /\ pc' = "raised"
                   /\ error' = r.err
    /\ UNCHANGED <<inputs, outpath, channel_ids, missing, urls, ydl_opts>>

\* line 71 and lines 96-99
BuildUrls ==
    /\ pc = "diff"
    /\ LET d == difference(channel_ids[1], local_ids[1])
       IN  /\ missing' = <<d>>
           /\ \E order \in ListsOf(d) :
                 urls' = [i \in 1..Len(order) |-> VideoUrl(order[i])]
    /\ pc' = "count"
    /\ UNCHANGED <<inputs, outpath, channel_ids, local_ids, ydl_opts, log, error>>

\* variant: the count is not reported
PrintCount_silent ==
    /\ pc = "count"
    /\ log' = log
    /\ ydl_opts' = <<[home |-> PathStr(outpath)]>>
    /\ pc' = "branch"
    /\ UNCHANGED <<inputs, outpath, channel_ids, local_ids, missing, urls, error>>

\* lines 101-113
PrintCount ==
    /\ pc = "count"
    /\ log' = Append(log, Ev("count", <<>>, <<>>, Len(urls)))
    /\ ydl_opts' = <<[home |-> PathStr(outpath)]>>
    /\ pc' = "branch"
    /\ UNCHANGED <<inputs, outpath, channel_ids, local_ids, missing, urls, error>>

\* lines 115-116
DryReport ==
    /\ pc = "branch"
    /\ dry_run
    /\ log' = Append(log, Ev("would", <<>>, urls, 0))
    /\ pc' = "done"
    /\ UNCHANGED <<inputs, outpath, channel_ids, local_ids, missing, urls, ydl_opts, error>>

\* variant: the download is not guarded by dry_run
Download_unguarded ==
    /\ pc = "branch"
    /\ log' = Append(log, Ev("download", ydl_opts[1].home, urls, 0))
    /\ \/ pc' = "done" /\ error' = error
       \/ pc' = "raised" /\ error' = "DownloadError"
    /\ UNCHANGED <<inputs, outpath, channel_ids, local_ids, missing, urls, ydl_opts>>

\* lines 117-119; the collaborator returns or raises
Download ==
    /\ pc = "branch"
    /\ ~dry_run
    /\ log' = Append(log, Ev("download", ydl_opts[1].home, urls, 0))
    /\ \/ pc' = "done" /\ error' = error
       \/ pc' = "raised" /\ error' = "DownloadError"
    /\ UNCHANGED <<inputs, outpath, channel_ids, local_ids, missing, urls, ydl_opts>>

Next ==
    \/ ResolveOutpath
    \/ CallRemote
    \/ CallLocal
    \/ BuildUrls
    \/ PrintCount
    \/ DryReport
    \/ Download

Spec == Init /\ [][Next]_vars

TypeOK ==
    /\ pc \in {"start", "remote", "local", "diff", "count", "branch", "done", "raised"}
    /\ Len(channel_ids) <= 1
    /\ Len(local_ids) <= 1

\* ---------------------------------------------------------------- properties
\* positions of the log at which an event of kind k stands
Kinds(k) == {i \in DOMAIN log : log[i].k = k}

RemoteResult == get_all_video_ids_from_channel(info)
LocalResult == get_all_video_ids_from_path(localpath)
ResolvedOut == IF outpathArg = <<>> THEN localpath ELSE outpathArg[1]

\* C1: whenever both listers succeeded and the diff was computed, the returned
\* set is a subset of the remote ID set, disjoint from the local ID set, and
\* equal to remote minus local.
C1_DiffSubsetDisjoint ==
    missing # <<>> =>
        /\ RemoteResult.ok /\ LocalResult.ok
        /\ missing[1] \subseteq RemoteResult.val
        /\ missing[1] \cap LocalResult.val = {}
        /\ \A id \in RemoteResult.val : id \in missing[1] \/ id \in LocalResult.val

C1_Witness ==
    /\ missing # <<>>
    /\ missing[1] = {IdB}
    /\ channel_ids[1] = {IdA, IdB}
    /\ local_ids[1] = {IdA}

\* C2: in a dry run the download collaborator is never called, and a finished
\* dry run with a non-empty missing set has reported every candidate URL.
C2_DryRunNoDownload ==
    dry_run =>
        /\ Kinds("download") = {}
        /\ (pc = "done" /\ missing[1] # {}) =>
              \E i \in Kinds("would") :
                  Range(log[i].urls) = {BASE_URL \o id : id \in missing[1]}

C2_Witness ==
    /\ dry_run
    /\ pc = "done"
    /\ missing[1] = {IdA, IdB}
    /\ Kinds("would") # {}

\* C3: a local path that is no directory makes the local lister fail with
\* InvalidPath without returning a set; a listing whose entries are empty,
\* absent or no list makes the remote lister fail with EmptyResult without
\* returning a set.
C3_ListerFailures ==
    /\ (Kinds("is_dir") # {} /\ ~isdir) =>
          /\ pc = "raised" /\ error = "InvalidPath"
          /\ local_ids = <<>> /\ missing = <<>>
    /\ (/\ Kinds("query") # {}
        /\ info.kind = "dict"
        /\ (info.ekind # "list" \/ Len(info.entries) = 0)) =>
          /\ pc = "raised" /\ error = "EmptyResult"
          /\ channel_ids = <<>> /\ Kinds("is_dir") = {}

C3_Witness ==
    /\ pc = "raised"
    /\ error = "EmptyResult"
    /\ info.kind = "dict" /\ info.ekind = "list" /\ info.entries = <<>>
    /\ Kinds("query") # {}

\* the 11-character runs enclosed in square brackets that text s contains
BracketTokens(s) ==
    {SubSeq(s, i + 1, i + IdLen) :
        i \in {j \in 1..(Len(s) - IdLen - 1) :
                  /\ s[j] = "[" /\ s[j + IdLen + 1] = "]"
                  /\ \A c \in 1..IdLen : s[j + c] \notin {"[", "]", "\n"}}}

\* C4: once the local lister has scanned the directory, every bracketed
\* 11-character token in an entry's file name or in a segment of its path is
\* in the returned set, and the scan did not fail.
C4_EveryTokenFound ==
    (Kinds("is_dir") # {} /\ isdir) =>
        /\ local_ids # <<>>
        /\ \A n \in files : \A seg \in Range(Append(localpath, n)) :
              BracketTokens(seg) \subseteq local_ids[1]

\* C5: the URL list built, reported and handed to the download collaborator is
\* exactly one URL, base prefix + id, per missing ID and nothing else; remote
\* {a, b} with local {a} gives exactly the URL of b.
C5_UrlsExact ==
    /\ missing # <<>> =>
          /\ Range(urls) = {BASE_URL \o id : id \in channel_ids[1] \ local_ids[1]}
          /\ Len(urls) = Cardinality(channel_ids[1] \ local_ids[1])
          /\ (channel_ids[1] = {IdA, IdB} /\ local_ids[1] = {IdA}) =>
                urls = <<BASE_URL \o IdB>>
    /\ \A i \in Kinds("would") \cup Kinds("download") : log[i].urls = urls

C5_Witness ==
    /\ pc = "done"
    /\ ~dry_run
    /\ channel_ids[1] = {IdA, IdB}
    /\ local_ids[1] = {IdA}
    /\ \E i \in Kinds("download") : log[i].urls = <<BASE_URL \o IdB>>

\* C6: the output directory configured for the download collaborator is the
\* local directory when none was given and the given directory otherwise, and
\* the directory scanned for existing IDs is the local one in both cases.
C6_OutputDirectory ==
    /\ ydl_opts # <<>> =>
          ydl_opts[1].home = (IF outpathArg = <<>> THEN PathStr(localpath)
                              ELSE PathStr(outpathArg[1]))
    /\ \A i \in Kinds("download") : log[i].path = PathStr(ResolvedOut)
    /\ \A i \in Kinds("is_dir") : log[i].path = PathStr(localpath)
    /\ local_ids # <<>> => local_ids[1] = LocalResult.val

C6_Witness ==
    /\ pc = "done"
    /\ outpathArg = <<OutDir>>
    /\ \E i \in Kinds("download") : log[i].path = <<"w">>
    /\ local_ids[1] = {IdA}
    /\ localpath = DirPlain

\* C7: the count is reported at most once, exactly once as soon as the diff
\* step has succeeded and the run has gone on to the branch, it equals the size
\* of the missing set, and it stands before the would-download report and
\* before the call of the download collaborator.
C7_CountOnceBefore ==
    /\ Cardinality(Kinds("count")) <= 1
    /\ (pc \in {"branch", "done"} \/ (pc = "raised" /\ error = "DownloadError")) =>
          Cardinality(Kinds("count")) = 1
    /\ \A i \in Kinds("count") : log[i].n = Cardinality(missing[1])
    /\ \A i \in Kinds("would") \cup Kinds("download") :
          \E j \in Kinds("count") : j < i

C7_Witness ==
    /\ pc = "done"
    /\ Cardinality(missing[1]) = 2
    /\ \E j \in Kinds("count") : log[j].n = 2
    /\ Kinds("would") \cup Kinds("download") # {}

\* C8: when a lister fails, the run ends with exactly that failure and nothing
\* is reported or downloaded: no count, no would-download report, no call of
\* the download collaborator, with and without dry_run.
C8_ListerFailureAborts ==
    (~RemoteResult.ok \/ ~LocalResult.ok) =>
        /\ pc \in {"start", "remote", "local", "raised"}
        /\ Kinds("count") \cup Kinds("would") \cup Kinds("download") = {}
        /\ missing = <<>> /\ urls = <<>>
        /\ pc = "raised" =>
              error = (IF ~RemoteResult.ok THEN RemoteResult.err ELSE LocalResult.err)
        /\ (pc = "local" => RemoteResult.ok)

C8_Witness ==
    /\ pc = "raised"
    /\ ~dry_run
    /\ error = "InvalidPath"
    /\ channel_ids # <<>>

\* C9: with a non-empty listing the remote lister returns the identifiers of
\* all entries only when every entry is a mapping; an entry that is no mapping,
\* at whatever position, makes it fail with MalformedEntry without a set; the
\* kinds are checked in the order InvalidResponse, EmptyResult, MalformedEntry.
C9_MalformedEntry ==
    Kinds("query") # {} =>
        /\ info.kind = "notdict" => error = "InvalidResponse"
        /\ (info.kind = "dict" /\ (info.ekind # "list" \/ info.entries = <<>>)) =>
              error = "EmptyResult"
        /\ (info.kind = "dict" /\ info.ekind = "list" /\ info.entries # <<>>) =>
              /\ (\E i \in DOMAIN info.entries : ~info.entries[i].isdict) =>
                    /\ pc = "raised" /\ error = "MalformedEntry"
                    /\ channel_ids = <<>>
              /\ channel_ids # <<>> =>
                    /\ \A i \in DOMAIN info.entries : info.entries[i].isdict
                    /\ channel_ids[1] = {info.entries[i].id[1] : i \in DOMAIN info.entries}

\* C10: the channel is queried before the local directory is validated: every
\* directory check follows a query, a missing local directory surfaces as
\* InvalidPath only after the query, and when both inputs are invalid the
\* failure is the remote lister's.
C10_RemoteBeforeLocal ==
    /\ \A i \in Kinds("is_dir") : \E j \in Kinds("query") : j < i
    /\ (~isdir /\ pc = "raised") => Kinds("query") # {}
    /\ (~isdir /\ RemoteResult.ok /\ pc = "raised") =>
          /\ error = "InvalidPath"
          /\ Len(log) = 2 /\ log[1].k = "query" /\ log[2].k = "is_dir"
    /\ (~isdir /\ ~RemoteResult.ok) =>
          /\ error # "InvalidPath"
          /\ Kinds("is_dir") = {}
          /\ pc = "raised" => error = RemoteResult.err

C10_Witness ==
    /\ pc = "raised"
    /\ ~isdir
    /\ error = "InvalidPath"
    /\ Len(log) = 2 /\ log[1].k = "query" /\ log[2].k = "is_dir"

====
